---- MODULE Spec2Model ----
(***************************************************************************)
(* A model of voice_chatbot.py: the connectivity probe, the listening      *)
(* selector (listen and its two transcription paths), the response         *)
(* selector (get_ai_response and the rolling conversation_history), the    *)
(* keyword fallback responder and the conversation loop of main().         *)
(*                                                                         *)
(* Text.  A text is a sequence of strings.  A text the program looks into  *)
(* (an utterance, a prompt, a trigger of the fallback table, an exit       *)
(* phrase) is written one character per element, so that lower(), strip()  *)
(* and the substring test are computed on its characters.  A text the      *)
(* program only passes on (a canned reply, a remote reply, a spoken        *)
(* message) is written as one element.                                     *)
(***************************************************************************)
EXTENDS Integers, Sequences, FiniteSets, TLC

VARIABLES
    conversation_history,   \* the module-level list of {role, content} turns
    is_openai_available,    \* set once at startup by the test completion
    WHISPER_AVAILABLE,      \* capability flags, set once at import time
    SOUNDDEVICE_AVAILABLE,
    SOUNDFILE_AVAILABLE,
    whisper_model,          \* TRUE: a loaded model, FALSE: None
    engine,                 \* TRUE: a pyttsx3 engine, FALSE: None
    pc,                     \* where main() stands
    user_input,             \* main()'s local: what listen() returned
    turn_log,               \* what the current loop iteration has done so far
    last_call,              \* the record of the last get_ai_response call
    scratch_files,          \* the scratch .wav files that exist on disk
    turns,                  \* loop iterations begun
    calls,                  \* get_ai_response calls made
    fb                      \* the fallback responder's last application

vars == <<conversation_history, is_openai_available, WHISPER_AVAILABLE,
          SOUNDDEVICE_AVAILABLE, SOUNDFILE_AVAILABLE, whisper_model, engine,
          pc, user_input, turn_log, last_call, scratch_files, turns, calls, fb>>

-----------------------------------------------------------------------------
(* Bounds *)

\* get_ai_response calls made in one behaviour of SpecResponse
MaxCalls == 7
\* loop iterations begun in one behaviour of Spec
MaxTurns == 2
\* fragments joined into one prompt in SpecFallback
MaxFrags == 2

-----------------------------------------------------------------------------
(* Text: str.lower, str.strip, the substring test *)

UpperCase == <<"A","B","C","D","E","F","G","H","I","J","K","L","M",
               "N","O","P","Q","R","S","T","U","V","W","X","Y","Z">>
LowerCase == <<"a","b","c","d","e","f","g","h","i","j","k","l","m",
               "n","o","p","q","r","s","t","u","v","w","x","y","z">>

lower_char(c) ==
    IF \E i \in 1..Len(UpperCase) : UpperCase[i] = c
    THEN LowerCase[CHOOSE i \in 1..Len(UpperCase) : UpperCase[i] = c]
    ELSE c

\* str.lower()
lower(s) == [i \in 1..Len(s) |-> lower_char(s[i])]

\* key in s, for two str
contains(key, s) ==
    \E i \in 0..(Len(s) - Len(key)) : SubSeq(s, i + 1, i + Len(key)) = key

Whitespace == {" ", "\t", "\n"}

\* str.strip()
strip(s) ==
    LET keep == {i \in 1..Len(s) : s[i] \notin Whitespace}
    IN  IF keep = {} THEN <<>>
        ELSE SubSeq(s, CHOOSE i \in keep : \A j \in keep : i <= j,
                       CHOOSE i \in keep : \A j \in keep : j <= i)

\* Python's None and a str, as one type: what listen() and its paths return
None == [is_none |-> TRUE, text |-> <<>>]
Str(t) == [is_none |-> FALSE, text |-> t]
\* if value:
truthy(value) == ~value.is_none /\ value.text # <<>>

-----------------------------------------------------------------------------
(* The words the program matches on *)

hello == <<"h","e","l","l","o">>
hi == <<"h","i">>
how_are_you == <<"h","o","w"," ","a","r","e"," ","y","o","u">>
bye == <<"b","y","e">>
thank == <<"t","h","a","n","k">>
help == <<"h","e","l","p">>
weather == <<"w","e","a","t","h","e","r">>
time == <<"t","i","m","e">>
name == <<"n","a","m","e">>
default == <<"d","e","f","a","u","l","t">>
quit == <<"q","u","i","t">>
exit == <<"e","x","i","t">>
goodbye == <<"g","o","o","d","b","y","e">>
stop == <<"s","t","o","p">>

\* time.strftime('%H:%M'): the wall clock is an input
Clocks == {"09:05", "23:59"}

DefaultReply ==
    <<"I'm currently operating in offline mode. I can only provide basic responses right now.">>

\* the dict of generate_fallback_response, in insertion order (the order a
\* Python dict iterates in); "default" is a key like the others
responses(clock) == <<
    [key |-> hello,       reply |-> <<"Hello! How can I help you today?">>],
    [key |-> hi,          reply |-> <<"Hi there! What can I do for you?">>],
    [key |-> how_are_you, reply |-> <<"I'm functioning well, thank you for asking!">>],
    [key |-> bye,         reply |-> <<"Goodbye! Have a great day!">>],
    [key |-> thank,       reply |-> <<"You're welcome!">>],
    [key |-> help,        reply |-> <<"I'm here to help! What do you need assistance with?">>],
    [key |-> weather,     reply |-> <<"I'm sorry, I can't check the weather right now.">>],
    [key |-> time,        reply |-> <<"The current time is ", clock>>],
    [key |-> name,        reply |-> <<"I'm Sayantan's Assistant, a voice-enabled chatbot.">>],
    [key |-> default,     reply |-> DefaultReply] >>

\* for key in responses: if key in prompt_lower: return responses[key]
RECURSIVE first_match(_, _, _)
first_match(table, prompt_lower, i) ==
    IF i > Len(table) THEN table[Len(table)].reply
    ELSE IF contains(table[i].key, prompt_lower) THEN table[i].reply
    ELSE first_match(table, prompt_lower, i + 1)

\* a fallback responder that returns the last matching trigger's reply
RECURSIVE last_match(_, _, _)
last_match(table, prompt_lower, i) ==
    IF i < 1 THEN table[Len(table)].reply
    ELSE IF contains(table[i].key, prompt_lower) THEN table[i].reply
    ELSE last_match(table, prompt_lower, i - 1)

generate_fallback_response_last(prompt, clock) ==
    last_match(responses(clock), lower(prompt), Len(responses(clock)) - 1)

generate_fallback_response(prompt, clock) ==
    first_match(responses(clock), lower(prompt), 1)

-----------------------------------------------------------------------------
(* The connectivity probe *)

\* what urlopen('https://api.openai.com', timeout=3) does
NetOutcomes == {"ok", "timeout"}

\* True when urlopen returns, False on anything it raises (a bare except)
check_internet_connection(net) == net = "ok"

-----------------------------------------------------------------------------
(* The response selector *)

SystemTurn ==
    [role |-> "system",
     content |-> <<"You are a helpful and friendly AI assistant named Sayantan's Assistant. You provide clear, concise, and accurate responses.">>]

\* the length above which get_ai_response evicts
MaxHistoryLen == 11

\* list.pop(index), index counted from 0: the list without that element
pop(list, index) == SubSeq(list, 1, index) \o SubSeq(list, index + 2, Len(list))

\* a trim that evicts the oldest entry of all
trim_evicts_first(history) ==
    IF Len(history) > MaxHistoryLen THEN pop(history, 0) ELSE history

\* a trim that evicts the oldest exchange, a user turn and its reply
trim_evicts_pair(history) ==
    IF Len(history) > MaxHistoryLen THEN pop(pop(history, 1), 1) ELSE history

\* if len(conversation_history) > 11: conversation_history.pop(1)
trim(history) ==
    IF Len(history) > MaxHistoryLen THEN pop(history, 1) ELSE history

\* what client.chat.completions.create does: a reply, or an error raised
CompletionOutcomes == {"ok", "APIError"}
RemoteReply == <<"Sure, here is what I found.">>

\* the record of a call that took a fallback branch
fallback_call(history, prompt, online, branch, clock) ==
    [branch |-> branch, prompt |-> prompt, online |-> online, requests |-> 0,
     sent |-> <<>>, reply |-> generate_fallback_response(prompt, clock),
     pre_history |-> history, history |-> history, exc |-> ""]

\* a completion call that appends no assistant turn when the request fails
completion_call_skips_failed(history, prompt, completion, clock, trimmed) ==
    LET ai_response == IF completion = "ok" THEN RemoteReply
                       ELSE generate_fallback_response(prompt, clock)
    IN  [branch |-> IF completion = "ok" THEN "success" ELSE "failed",
         prompt |-> prompt, online |-> TRUE, requests |-> 1,
         sent |-> trimmed, reply |-> ai_response, pre_history |-> history,
         history |-> IF completion = "ok"
                     THEN Append(trimmed, [role |-> "assistant", content |-> ai_response])
                     ELSE trimmed,
         exc |-> ""]

\* a completion call that sends a failed request a second time
completion_call_retries(history, prompt, completion, clock, trimmed) ==
    LET ai_response == IF completion = "ok" THEN RemoteReply
                       ELSE generate_fallback_response(prompt, clock)
    IN  [branch |-> IF completion = "ok" THEN "success" ELSE "failed",
         prompt |-> prompt, online |-> TRUE,
         requests |-> IF completion = "ok" THEN 1 ELSE 2,
         sent |-> trimmed, reply |-> ai_response, pre_history |-> history,
         history |-> Append(trimmed, [role |-> "assistant", content |-> ai_response]),
         exc |-> ""]

\* the record of a call that reached the completion request.  What the
\* request raises is caught by "except Exception" (line 308) and replaced by
\* the fallback reply; an interrupt is no Exception: it passes that clause
\* and the outer one (line 314) and leaves the call after line 297
completion_call(history, prompt, completion, clock, trimmed) ==
    IF completion = "ok" \/ completion \notin {"KeyboardInterrupt", "SystemExit"}
    THEN LET ai_response == IF completion = "ok" THEN RemoteReply
                            ELSE generate_fallback_response(prompt, clock)
         IN  [branch |-> IF completion = "ok" THEN "success" ELSE "failed",
              prompt |-> prompt, online |-> TRUE, requests |-> 1,
              sent |-> trimmed, reply |-> ai_response, pre_history |-> history,
              history |-> Append(trimmed, [role |-> "assistant", content |-> ai_response]),
              exc |-> ""]
    ELSE [branch |-> "interrupted", prompt |-> prompt, online |-> TRUE,
          requests |-> 1, sent |-> trimmed, reply |-> <<>>,
          pre_history |-> history, history |-> trimmed, exc |-> completion]

\* a get_ai_response that appends the user turn before it probes
get_ai_response_appends_first(history, available, prompt, net, completion, clock) ==
    LET appended == Append(history, [role |-> "user", content |-> prompt])
    IN  IF ~check_internet_connection(net)
        THEN [fallback_call(appended, prompt, FALSE, "offline", clock)
                 EXCEPT !.pre_history = history]
        ELSE IF ~available
        THEN [fallback_call(appended, prompt, TRUE, "unavailable", clock)
                 EXCEPT !.pre_history = history]
        ELSE completion_call(history, prompt, completion, clock, trim(appended))

\* a get_ai_response that trims before it appends the user turn
get_ai_response_trims_first(history, available, prompt, net, completion, clock) ==
    IF ~check_internet_connection(net)
    THEN fallback_call(history, prompt, FALSE, "offline", clock)
    ELSE IF ~available
    THEN fallback_call(history, prompt, TRUE, "unavailable", clock)
    ELSE completion_call(history, prompt, completion, clock,
             Append(trim(history), [role |-> "user", content |-> prompt]))

\* get_ai_response(prompt): the history it leaves, the reply it returns and
\* what it did on the way.  The outer except clause has nothing to catch:
\* what can raise (the completion request) is inside the inner try.
get_ai_response(history, available, prompt, net, completion, clock) ==
    IF ~check_internet_connection(net)
    THEN fallback_call(history, prompt, FALSE, "offline", clock)
    ELSE IF ~available
    THEN fallback_call(history, prompt, TRUE, "unavailable", clock)
    ELSE completion_call(history, prompt, completion, clock,
             trim(Append(history, [role |-> "user", content |-> prompt])))

NoCall ==
    [branch |-> "none", prompt |-> <<>>, online |-> FALSE, requests |-> 0,
     sent |-> <<>>, reply |-> <<>>, pre_history |-> <<>>]

\* last_call keeps the call's record without the history it left
call_record(r) ==
    [branch |-> r.branch, prompt |-> r.prompt, online |-> r.online,
     requests |-> r.requests, sent |-> r.sent, reply |-> r.reply,
     pre_history |-> r.pre_history]

-----------------------------------------------------------------------------
(* SpecResponse: get_ai_response called again and again *)

Hello_how_are_you ==
    <<"H","e","l","l","o",","," ","h","o","w"," ","a","r","e"," ","y","o","u","?">>
goodbye_now == <<"g","o","o","d","b","y","e"," ","n","o","w">>

ResponsePrompts == {Hello_how_are_you, goodbye_now}
ResponseClock == "09:05"

NoFallback == [prompt |-> <<>>, clock |-> "", reply |-> <<>>, done |-> FALSE]

InitResponse ==
    /\ conversation_history = <<SystemTurn>>
    /\ is_openai_available \in BOOLEAN
    /\ WHISPER_AVAILABLE = FALSE
    /\ SOUNDDEVICE_AVAILABLE = FALSE
    /\ SOUNDFILE_AVAILABLE = FALSE
    /\ whisper_model = FALSE
    /\ engine = FALSE
    /\ pc = "response"
    /\ user_input = None
    /\ turn_log = <<>>
    /\ last_call = NoCall
    /\ scratch_files = {}
    /\ turns = 0
    /\ calls = 0
    /\ fb = NoFallback

CallGetAiResponse ==
    /\ pc = "response"
    /\ calls < MaxCalls
    /\ \E prompt \in ResponsePrompts, net \in NetOutcomes,
          completion \in CompletionOutcomes :
          LET r == get_ai_response(conversation_history, is_openai_available,
                                   prompt, net, completion, ResponseClock)
          IN  /\ conversation_history' = r.history
              /\ last_call' = call_record(r)
    /\ calls' = calls + 1
    /\ UNCHANGED <<is_openai_available, WHISPER_AVAILABLE, SOUNDDEVICE_AVAILABLE,
                   SOUNDFILE_AVAILABLE, whisper_model, engine, pc, user_input,
                   turn_log, scratch_files, turns, fb>>

NextResponse == CallGetAiResponse

SpecResponse == InitResponse /\ [][NextResponse]_vars

-----------------------------------------------------------------------------
(* Exceptions: a call returns a value or raises; exc = "" when it returns *)

Return(value) == [exc |-> "", value |-> value]
Raise(e) == [exc |-> e, value |-> None]

\* what "except Exception" catches: not KeyboardInterrupt, not SystemExit
is_Exception(e) == e \notin {"", "KeyboardInterrupt", "SystemExit"}

\* Ctrl-C: the interrupt the process may receive while a call blocks
Interrupt == "KeyboardInterrupt"

\* one entry of turn_log
Event(ev, text, ok) == [ev |-> ev, text |-> text, ok |-> ok]

\* the entry of a connectivity probe: ok is what the probe returned, and
\* the text names the interrupt when one was delivered during the probe
probe_event(net) ==
    Event("probe", IF net = Interrupt THEN <<net>> ELSE <<>>,
          check_internet_connection(net))

-----------------------------------------------------------------------------
(* The listening selector *)

Bye == <<"B","y","e">>

\* what the microphone and recognize_google do: a transcript, or an error
BasicOutcomes ==
    {[kind |-> "text", text |-> t] : t \in {Bye, goodbye_now}}
    \cup {[kind |-> k, text |-> <<>>] :
            k \in {"UnknownValueError", "RequestError", "WaitTimeoutError"}}

\* the body of listen_with_speech_recognition's try
basic_body(basic) ==
    IF basic.kind = "text" THEN Return(Str(basic.text)) ELSE Raise(basic.kind)

\* a basic path without its last except clause
listen_with_speech_recognition_two_clauses(basic) ==
    LET r == basic_body(basic)
    IN  IF r.exc \in {"UnknownValueError", "RequestError"} THEN Return(None)
        ELSE r

\* listen_with_speech_recognition(): the text, or None after any error
listen_with_speech_recognition(basic) ==
    LET r == basic_body(basic)
    IN  IF r.exc = "" THEN r
        ELSE IF r.exc = "UnknownValueError" THEN Return(None)
        ELSE IF r.exc = "RequestError" THEN Return(None)
        ELSE IF is_Exception(r.exc) THEN Return(None)
        ELSE r

\* what recording, writing the scratch file and whisper do: the raw
\* transcript, or an error while recording, writing or transcribing
AdvancedOutcomes ==
    {[kind |-> "text", text |-> t] :
        t \in {<<" ","S","t","o","p">>, <<" ","B","y","e",".">>, <<" ">>}}
    \cup {[kind |-> k, text |-> <<>>] :
            k \in {"record_error", "write_error", "transcribe_error"}}

\* the body of listen_with_advanced_methods' try
advanced_body(adv) ==
    IF adv.kind = Interrupt THEN Raise(Interrupt)
    ELSE IF adv.kind \in {"record_error", "write_error"} THEN Raise("OSError")
    ELSE IF ~whisper_model THEN Raise("AttributeError")
    ELSE IF adv.kind = "transcribe_error" THEN Raise("RuntimeError")
    ELSE LET text == strip(adv.text)
         IN  IF text # <<>> THEN Return(Str(text)) ELSE Return(None)

\* whether the call got as far as NamedTemporaryFile: an error or an
\* interrupt while recording comes before it
temp_created(adv) == adv.kind \notin {"record_error", Interrupt}

\* a cleanup that is the last statement of the try, not a finally clause:
\* it is skipped when the body raises
files_after_no_finally(adv, unlink_ok) ==
    IF ~temp_created(adv) THEN scratch_files
    ELSE IF advanced_body(adv).exc # "" \/ ~unlink_ok
    THEN scratch_files \cup {turns + 1}
    ELSE scratch_files

\* the scratch files on disk after the finally clause: the file exists once
\* NamedTemporaryFile has run, and os.unlink removes it unless it fails
files_after(adv, unlink_ok) ==
    IF ~temp_created(adv) \/ unlink_ok THEN scratch_files
    ELSE scratch_files \cup {turns + 1}

\* the warning the finally clause prints when os.unlink fails
unlink_warning(adv, unlink_ok) ==
    IF temp_created(adv) /\ ~unlink_ok
    THEN <<Event("warning", <<"Could not delete temporary file">>, FALSE)>>
    ELSE <<>>

\* an advanced path without its except clause
listen_with_advanced_methods_no_except(adv, unlink_ok) ==
    advanced_body(adv) @@ [files |-> files_after(adv, unlink_ok),
                           warning |-> unlink_warning(adv, unlink_ok)]

\* listen_with_advanced_methods(): the stripped text, or None
listen_with_advanced_methods(adv, unlink_ok) ==
    LET r == advanced_body(adv)
    IN  (IF is_Exception(r.exc) THEN Return(None) ELSE r)
        @@ [files |-> files_after(adv, unlink_ok),
            warning |-> unlink_warning(adv, unlink_ok)]

\* what listen() returns, with what it did: log is the calls it made
listened(exc, value, files, log) ==
    [exc |-> exc, value |-> value, files |-> files, log |-> log]

\* the basic path as listen() calls it
listen_basic(basic, files, log) ==
    LET b == listen_with_speech_recognition(basic)
    IN  listened(b.exc, b.value, files,
                 Append(log, Event("basic", b.value.text, truthy(b.value))))

\* a listen() that takes the advanced path whatever the probe says
listen_ignores_probe(net, adv, unlink_ok, basic) ==
    LET online_mode == check_internet_connection(net)
        probe == <<probe_event(net)>>
    IN  IF WHISPER_AVAILABLE /\ SOUNDDEVICE_AVAILABLE /\ SOUNDFILE_AVAILABLE
        THEN LET a == listen_with_advanced_methods(adv, unlink_ok)
                 log == probe \o a.warning
                        \o <<Event("advanced", a.value.text, truthy(a.value))>>
             IN  IF a.exc # "" THEN listened(a.exc, None, a.files, log)
                 ELSE IF truthy(a.value) THEN listened("", a.value, a.files, log)
                 ELSE listen_basic(basic, a.files, log)
        ELSE listen_basic(basic, scratch_files, probe)

\* a listen() that returns what the advanced path returned, text or not
listen_no_fall_back(net, adv, unlink_ok, basic) ==
    LET online_mode == check_internet_connection(net)
        probe == <<probe_event(net)>>
    IN  IF online_mode /\ WHISPER_AVAILABLE /\ SOUNDDEVICE_AVAILABLE
           /\ SOUNDFILE_AVAILABLE
        THEN LET a == listen_with_advanced_methods(adv, unlink_ok)
                 log == probe \o a.warning
                        \o <<Event("advanced", a.value.text, truthy(a.value))>>
             IN  listened(a.exc, a.value, a.files, log)
        ELSE listen_basic(basic, scratch_files, probe)

\* listen()
listen(net, adv, unlink_ok, basic) ==
    LET online_mode == check_internet_connection(net)
        probe == <<probe_event(net)>>
    IN  IF online_mode /\ WHISPER_AVAILABLE /\ SOUNDDEVICE_AVAILABLE
           /\ SOUNDFILE_AVAILABLE
        THEN LET a == listen_with_advanced_methods(adv, unlink_ok)
                 log == probe \o a.warning
                        \o <<Event("advanced", a.value.text, truthy(a.value))>>
             IN  IF a.exc # "" THEN listened(a.exc, None, a.files, log)
                 ELSE IF truthy(a.value) THEN listened("", a.value, a.files, log)
                 ELSE listen_basic(basic, a.files, log)
        ELSE listen_basic(basic, scratch_files, probe)

-----------------------------------------------------------------------------
(* Speech output *)

\* what engine.say and engine.runAndWait do
TtsOutcomes == {"ok", "RuntimeError"}

\* a speak() without its try
speak_no_except(text, tts) ==
    IF ~engine THEN [exc |-> "", log |-> <<Event("speak", text, FALSE)>>]
    ELSE IF tts = "ok" THEN [exc |-> "", log |-> <<Event("speak", text, TRUE)>>]
    ELSE [exc |-> tts, log |-> <<>>]

\* speak(text): ok tells whether the text was voiced or only printed
speak(text, tts) ==
    IF ~engine THEN [exc |-> "", log |-> <<Event("speak", text, FALSE)>>]
    ELSE IF tts = "ok" THEN [exc |-> "", log |-> <<Event("speak", text, TRUE)>>]
    ELSE IF is_Exception(tts) THEN [exc |-> "", log |-> <<Event("speak", text, FALSE)>>]
    ELSE [exc |-> tts, log |-> <<>>]

-----------------------------------------------------------------------------
(* The conversation loop: main() and the handlers around it *)

WelcomeMessage ==
    <<"Hello! I'm Sayantan's Assistant, your voice-enabled AI companion. How can I help you today?">>
Farewell == <<"Thank you for chatting with me. Goodbye and have a great day!">>
Reprompt == <<"Could you please repeat that?">>
Apology == <<"I encountered an error and need to shut down. Please restart me.">>

ExitPhrases == {quit, exit, bye, goodbye, stop}

\* an exit test that looks for an exit phrase inside the utterance
is_exit_substring(utterance) ==
    \E phrase \in ExitPhrases : contains(phrase, lower(utterance))

\* an exit test that does not lower-case the utterance
is_exit_case_sensitive(utterance) == utterance \in ExitPhrases

\* user_input.lower() in ['quit', 'exit', 'bye', 'goodbye', 'stop']
is_exit(utterance) == lower(utterance) \in ExitPhrases

Goodbye == <<"Goodbye!">>

\* the handlers around main(): "except KeyboardInterrupt" speaks Goodbye!,
\* "except Exception" speaks the apology; the process ends after either
unexpected(log, exc, tts) ==
    log \o <<Event("raised", <<exc>>, FALSE)>>
        \o speak(IF exc = Interrupt THEN Goodbye ELSE Apology, tts).log

\* where the process ends when exc leaves main()
after_raise(exc) == IF exc = Interrupt THEN "interrupted" ELSE "crashed"

\* exc leaves main() after the calls of log
leaves_main(log, exc) ==
    /\ pc' = after_raise(exc)
    /\ \E tts \in TtsOutcomes : turn_log' = unexpected(log, exc, tts)

\* what get_ai_response did, as entries of turn_log
response_log(r, net) ==
    <<probe_event(net)>>
    \o [i \in 1..r.requests |-> Event("request", r.prompt, r.branch = "success")]

\* the outcomes of the calls that block, with the interrupts of I among them
Nets(I) == NetOutcomes \cup I
Advanceds(I) == AdvancedOutcomes \cup {[kind |-> k, text |-> <<>>] : k \in I}
Basics(I) == BasicOutcomes \cup {[kind |-> k, text |-> <<>>] : k \in I}
Completions(I) == CompletionOutcomes \cup I
Ttss(I) == TtsOutcomes \cup I

Init ==
    /\ conversation_history = <<SystemTurn>>
    /\ is_openai_available \in BOOLEAN
    /\ WHISPER_AVAILABLE \in BOOLEAN
    /\ SOUNDDEVICE_AVAILABLE \in BOOLEAN
    /\ SOUNDFILE_AVAILABLE \in BOOLEAN
    /\ whisper_model \in BOOLEAN
    /\ whisper_model => WHISPER_AVAILABLE
    /\ engine \in BOOLEAN
    /\ pc = "start"
    /\ user_input = None
    /\ turn_log = <<>>
    /\ last_call = NoCall
    /\ scratch_files = {}
    /\ turns = 0
    /\ calls = 0
    /\ fb = NoFallback

\* main() up to the loop: the startup probe (printed only) and the welcome
WelcomeOn(I) ==
    /\ pc = "start"
    /\ \E net \in Nets(I), tts \in Ttss(I) :
          LET probe == <<probe_event(net)>>
              s == speak(WelcomeMessage, tts)
          IN  IF s.exc = ""
              THEN pc' = "listening" /\ turn_log' = probe \o s.log
              ELSE leaves_main(probe, s.exc)
    /\ UNCHANGED <<conversation_history, is_openai_available, WHISPER_AVAILABLE,
                   SOUNDDEVICE_AVAILABLE, SOUNDFILE_AVAILABLE, whisper_model,
                   engine, user_input, last_call, scratch_files, turns, calls, fb>>

\* whether a listen() call with these inputs calls the path named ev
calls_path(ev, net, adv, unlink_ok) ==
    LET log == listen(net, adv, unlink_ok, [kind |-> "UnknownValueError", text |-> <<>>]).log
    IN  \E i \in 1..Len(log) : log[i].ev = ev

\* the inputs a listen() call consumes: the advanced path's outcome only
\* when listen() takes that path, the basic path's only when it gets there
AdvancedInputs(net, I) ==
    IF calls_path("advanced", net, [kind |-> "record_error", text |-> <<>>], TRUE)
    THEN Advanceds(I) \X BOOLEAN
    ELSE {<<[kind |-> "record_error", text |-> <<>>], TRUE>>}

BasicInputs(net, adv, unlink_ok, I) ==
    IF calls_path("basic", net, adv, unlink_ok)
    THEN Basics(I)
    ELSE {[kind |-> "UnknownValueError", text |-> <<>>]}

\* user_input = listen()
ListenOn(I) ==
    /\ pc = "listening"
    /\ turns < MaxTurns
    /\ \E net \in Nets(I) :
       \E a \in AdvancedInputs(net, I) :
       \E basic \in BasicInputs(net, a[1], a[2], I) :
          LET r == listen(net, a[1], a[2], basic)
          IN  /\ user_input' = r.value
              /\ scratch_files' = r.files
              /\ IF r.exc = ""
                 THEN pc' = "heard" /\ turn_log' = r.log
                 ELSE leaves_main(r.log, r.exc)
    /\ turns' = turns + 1
    /\ UNCHANGED <<conversation_history, is_openai_available, WHISPER_AVAILABLE,
                   SOUNDDEVICE_AVAILABLE, SOUNDFILE_AVAILABLE, whisper_model,
                   engine, last_call, calls, fb>>

\* the exit branch: speak the farewell and break
ExitTurnOn(I) ==
    /\ pc = "heard"
    /\ truthy(user_input)
    /\ is_exit(user_input.text)
    /\ \E tts \in Ttss(I) :
          LET s == speak(Farewell, tts)
          IN  IF s.exc = ""
              THEN pc' = "terminated" /\ turn_log' = turn_log \o s.log
              ELSE leaves_main(turn_log, s.exc)
    /\ UNCHANGED <<conversation_history, is_openai_available, WHISPER_AVAILABLE,
                   SOUNDDEVICE_AVAILABLE, SOUNDFILE_AVAILABLE, whisper_model,
                   engine, user_input, last_call, scratch_files, turns, calls, fb>>

\* response = get_ai_response(user_input); speak(response)
RespondTurnOn(I) ==
    /\ pc = "heard"
    /\ truthy(user_input)
    /\ ~is_exit(user_input.text)
    /\ \E net \in Nets(I), completion \in Completions(I),
          clock \in Clocks, tts \in Ttss(I) :
          LET r == get_ai_response(conversation_history, is_openai_available,
                                   user_input.text, net, completion, clock)
              s == speak(r.reply, tts)
              log == turn_log \o response_log(r, net)
          IN  /\ conversation_history' = r.history
              /\ last_call' = call_record(r)
              /\ IF r.exc # "" THEN leaves_main(log, r.exc)
                 ELSE IF s.exc = ""
                 THEN pc' = "listening" /\ turn_log' = log \o s.log
                 ELSE leaves_main(log, s.exc)
    /\ calls' = calls + 1
    /\ UNCHANGED <<is_openai_available, WHISPER_AVAILABLE, SOUNDDEVICE_AVAILABLE,
                   SOUNDFILE_AVAILABLE, whisper_model, engine, user_input,
                   scratch_files, turns, fb>>

\* the else branch: nothing was heard
RepromptTurnOn(I) ==
    /\ pc = "heard"
    /\ ~truthy(user_input)
    /\ \E tts \in Ttss(I) :
          LET s == speak(Reprompt, tts)
          IN  IF s.exc = ""
              THEN pc' = "listening" /\ turn_log' = turn_log \o s.log
              ELSE leaves_main(turn_log, s.exc)
    /\ UNCHANGED <<conversation_history, is_openai_available, WHISPER_AVAILABLE,
                   SOUNDDEVICE_AVAILABLE, SOUNDFILE_AVAILABLE, whisper_model,
                   engine, user_input, last_call, scratch_files, turns, calls, fb>>

\* a loop whose re-prompt has lost its else: it follows every reply
RespondTurn_then_reprompts ==
    /\ pc = "heard"
    /\ truthy(user_input)
    /\ ~is_exit(user_input.text)
    /\ \E net \in NetOutcomes, completion \in CompletionOutcomes,
          clock \in Clocks, tts \in TtsOutcomes :
          LET r == get_ai_response(conversation_history, is_openai_available,
                                   user_input.text, net, completion, clock)
              s == speak(r.reply, tts)
              log == turn_log \o response_log(r, net)
          IN  /\ conversation_history' = r.history
              /\ last_call' = call_record(r)
              /\ IF s.exc = ""
                 THEN pc' = "listening"
                      /\ turn_log' = log \o s.log \o speak(Reprompt, tts).log
                 ELSE leaves_main(log, s.exc)
    /\ calls' = calls + 1
    /\ UNCHANGED <<is_openai_available, WHISPER_AVAILABLE, SOUNDDEVICE_AVAILABLE,
                   SOUNDFILE_AVAILABLE, whisper_model, engine, user_input,
                   scratch_files, turns, fb>>

\* a loop that hands get_ai_response the probe result listen() got, with
\* no probe of its own
RespondTurn_reuses_probe ==
    /\ pc = "heard"
    /\ truthy(user_input)
    /\ ~is_exit(user_input.text)
    /\ \E completion \in CompletionOutcomes, clock \in Clocks,
          tts \in TtsOutcomes :
          LET net == IF turn_log[1].ok THEN "ok" ELSE "timeout"
              r == get_ai_response(conversation_history, is_openai_available,
                                   user_input.text, net, completion, clock)
              s == speak(r.reply, tts)
              log == turn_log \o Tail(response_log(r, net))
          IN  /\ conversation_history' = r.history
              /\ last_call' = call_record(r)
              /\ IF s.exc = ""
                 THEN pc' = "listening" /\ turn_log' = log \o s.log
                 ELSE leaves_main(log, s.exc)
    /\ calls' = calls + 1
    /\ UNCHANGED <<is_openai_available, WHISPER_AVAILABLE, SOUNDDEVICE_AVAILABLE,
                   SOUNDFILE_AVAILABLE, whisper_model, engine, user_input,
                   scratch_files, turns, fb>>

\* a loop whose else branch goes back to listening without a word
RepromptTurn_silent ==
    /\ pc = "heard"
    /\ ~truthy(user_input)
    /\ pc' = "listening"
    /\ UNCHANGED <<conversation_history, is_openai_available, WHISPER_AVAILABLE,
                   SOUNDDEVICE_AVAILABLE, SOUNDFILE_AVAILABLE, whisper_model,
                   engine, user_input, turn_log, last_call, scratch_files,
                   turns, calls, fb>>

\* the loop with no interrupt delivered
Welcome == WelcomeOn({})
Listen == ListenOn({})
ExitTurn == ExitTurnOn({})
RespondTurn == RespondTurnOn({})
RepromptTurn == RepromptTurnOn({})

Next == Welcome \/ Listen \/ ExitTurn \/ RespondTurn \/ RepromptTurn

Spec == Init /\ [][Next]_vars

\* the loop with an interrupt delivered, or not, during each call that
\* blocks: a probe, a recording, a recognition, a completion request, speech
WelcomeInterruptible == WelcomeOn({Interrupt})
ListenInterruptible == ListenOn({Interrupt})
ExitTurnInterruptible == ExitTurnOn({Interrupt})
RespondTurnInterruptible == RespondTurnOn({Interrupt})
RepromptTurnInterruptible == RepromptTurnOn({Interrupt})

NextInterrupt ==
    \/ WelcomeInterruptible
    \/ ListenInterruptible
    \/ ExitTurnInterruptible
    \/ RespondTurnInterruptible
    \/ RepromptTurnInterruptible

SpecInterrupt == Init /\ [][NextInterrupt]_vars

-----------------------------------------------------------------------------
(* SpecFallback: generate_fallback_response applied to one prompt *)

\* words a prompt is joined from: the triggers in several cases, a word
\* that holds a trigger inside it, and words that hold none
Fragments ==
    {<<"H","e","l","l","o">>, hi, how_are_you, <<"B","Y","E">>,
     <<"T","h","a","n","k","s">>, help, <<"W","e","a","t","h","e","r">>,
     time, name, default, <<"T","h","i","s">>, <<" ">>, <<"o","k">>,
     Hello_how_are_you}

\* the prompts joined from at most n fragments
RECURSIVE Joined(_)
Joined(n) ==
    IF n = 0 THEN {<<>>}
    ELSE Joined(n - 1) \cup {p \o f : p \in Joined(n - 1), f \in Fragments}

InitFallback ==
    /\ conversation_history = <<SystemTurn>>
    /\ is_openai_available = FALSE
    /\ WHISPER_AVAILABLE = FALSE
    /\ SOUNDDEVICE_AVAILABLE = FALSE
    /\ SOUNDFILE_AVAILABLE = FALSE
    /\ whisper_model = FALSE
    /\ engine = FALSE
    /\ pc = "fallback"
    /\ user_input = None
    /\ turn_log = <<>>
    /\ last_call = NoCall
    /\ scratch_files = {}
    /\ turns = 0
    /\ calls = 0
    /\ \E prompt \in Joined(MaxFrags) :
          fb = [prompt |-> prompt, clock |-> "", reply |-> <<>>, done |-> FALSE]

ApplyFallback ==
    /\ pc = "fallback"
    /\ ~fb.done
    /\ \E clock \in Clocks :
          fb' = [prompt |-> fb.prompt, clock |-> clock,
                 reply |-> generate_fallback_response(fb.prompt, clock),
                 done |-> TRUE]
    /\ UNCHANGED <<conversation_history, is_openai_available, WHISPER_AVAILABLE,
                   SOUNDDEVICE_AVAILABLE, SOUNDFILE_AVAILABLE, whisper_model,
                   engine, pc, user_input, turn_log, last_call, scratch_files,
                   turns, calls>>

NextFallback == ApplyFallback

SpecFallback == InitFallback /\ [][NextFallback]_vars

-----------------------------------------------------------------------------
(* The response selector's properties, under SpecResponse *)

UserTurn(prompt) == [role |-> "user", content |-> prompt]
AssistantTurn(reply) == [role |-> "assistant", content |-> reply]

\* C1: whenever get_ai_response has returned, conversation_history holds at
\* most 11 entries.
C1_HistoryAtMost11 == Len(conversation_history) <= 11

C3_SystemTurnStaysFirst ==
    /\ Len(conversation_history) >= 1
    /\ conversation_history[1] = SystemTurn
    /\ \A i \in 2..Len(conversation_history) :
          conversation_history[i].role # "system"

\* a call that has evicted an entry
C3_Witness ==
    /\ last_call.requests = 1
    /\ Len(last_call.sent) = Len(last_call.pre_history)

\* C8: a call whose probe is false, or made while is_openai_available is
\* false, returns the fallback reply, issues no completion request and
\* leaves conversation_history as it was.
C8_FallbackBranchLeavesHistory ==
    (last_call.branch # "none" /\ (~last_call.online \/ ~is_openai_available)) =>
        /\ last_call.requests = 0
        /\ last_call.sent = <<>>
        /\ conversation_history = last_call.pre_history
        /\ last_call.reply =
               generate_fallback_response(last_call.prompt, ResponseClock)

\* an offline call made after the history has grown
C8_Witness ==
    /\ last_call.branch = "offline"
    /\ is_openai_available
    /\ Len(conversation_history) > 1

-----------------------------------------------------------------------------
(* The fallback responder's property, under SpecFallback *)

\* the triggers in the order the claim gives them
C4_Triggers ==
    <<hello, hi, how_are_you, bye, thank, help, weather, time, name>>

\* the reply the table holds for a trigger
C4_ReplyOf(trigger, clock) ==
    LET table == responses(clock)
    IN  table[CHOOSE i \in 1..Len(table) : table[i].key = trigger].reply

\* C4: generate_fallback_response(P) is the reply of the first trigger, in
\* the order hello, hi, how are you, bye, thank, help, weather, time, name,
\* that is a substring of lower-cased P, and the default message when none
\* is; "Hello, how are you?" gets the hello reply.
C4_FirstTriggerInTableOrder ==
    fb.done =>
        LET p == lower(fb.prompt)
            hits == {i \in 1..Len(C4_Triggers) : contains(C4_Triggers[i], p)}
        IN  /\ hits = {} => fb.reply = DefaultReply
            /\ hits # {} =>
                 fb.reply = C4_ReplyOf(
                     C4_Triggers[CHOOSE i \in hits : \A j \in hits : i <= j],
                     fb.clock)
            /\ fb.prompt = Hello_how_are_you =>
                 fb.reply = <<"Hello! How can I help you today?">>

\* the example prompt, where hello and how are you both match
C4_Witness ==
    /\ fb.done
    /\ fb.prompt = Hello_how_are_you
    /\ contains(how_are_you, lower(fb.prompt))

-----------------------------------------------------------------------------
(* The listening selector's and the loop's properties, under Spec *)

\* the places of turn_log that hold an event of kind ev
Events(ev) == {i \in 1..Len(turn_log) : turn_log[i].ev = ev}

\* C5: in a listen() call the advanced path is attempted exactly when the
\* call's probe is true and the three capability flags are true; it comes
\* before the basic path; and when it yields text, listen() returns that
\* text and the basic path is not invoked.
C5_AdvancedPathPreferred ==
    pc = "heard" =>
        /\ turn_log[1].ev = "probe"
        /\ Events("probe") = {1}
        /\ Cardinality(Events("advanced")) <= 1
        /\ Events("advanced") # {} <=>
              (turn_log[1].ok /\ WHISPER_AVAILABLE /\ SOUNDDEVICE_AVAILABLE
               /\ SOUNDFILE_AVAILABLE)
        /\ \A i \in Events("advanced") :
              /\ \A j \in Events("basic") : i < j
              /\ turn_log[i].ok =>
                    /\ Events("basic") = {}
                    /\ turn_log[i].text # <<>>
                    /\ user_input = Str(turn_log[i].text)

\* a listen() that returned the advanced path's text
C5_Witness ==
    /\ pc = "heard"
    /\ \E i \in Events("advanced") : turn_log[i].ok
    /\ truthy(user_input)

\* C6: when the advanced path is attempted and yields no text or fails,
\* listen() does not raise: the basic path is invoked next, in the same
\* call, and listen() returns what the basic path returned.
C6_FallsBackToBasic ==
    \A i \in Events("advanced") :
        ~turn_log[i].ok =>
            /\ Len(turn_log) > i
            /\ turn_log[i + 1].ev = "basic"
            /\ Len(turn_log) > i + 1 => turn_log[i + 2].ev # "raised"
            /\ user_input = IF turn_log[i + 1].ok
                            THEN Str(turn_log[i + 1].text) ELSE None

\* a listen() whose advanced path failed while the model was loaded, and
\* whose basic path then heard text
C6_Witness ==
    /\ pc = "heard"
    /\ whisper_model
    /\ \E i \in Events("advanced") : ~turn_log[i].ok
    /\ \E j \in Events("basic") : turn_log[j].ok
    /\ truthy(user_input)

\* C7: the loop ends on an utterance exactly when the lower-cased utterance
\* is one of quit, exit, bye, goodbye, stop: "goodbye now" does not end it,
\* "Bye" does.
C7_ExitPhraseExact ==
    LET exits == truthy(user_input) /\ lower(user_input.text) \in ExitPhrases
    IN  /\ pc = "terminated" => exits
        /\ pc = "listening" => ~exits
        /\ ~(pc = "terminated" /\ user_input = Str(goodbye_now))
        /\ ~(pc = "listening" /\ user_input = Str(Bye))

\* the loop ended by "Bye", after a turn that replied to "goodbye now"
C7_Witness ==
    /\ pc = "terminated"
    /\ user_input = Str(Bye)
    /\ last_call.prompt = goodbye_now

\* C9: when listen() yields nothing, the loop speaks the re-prompt, does not
\* call get_ai_response, leaves conversation_history unchanged and goes on
\* listening; when it yields an utterance that is no exit phrase, the loop
\* calls get_ai_response with it, speaks the reply returned, and goes on
\* listening.
C9_RepromptOrReply ==
    [][ /\ (pc = "heard" /\ ~truthy(user_input)) =>
            /\ pc' = "listening"
            /\ conversation_history' = conversation_history
            /\ last_call' = last_call
            /\ calls' = calls
            /\ Len(turn_log') = Len(turn_log) + 1
            /\ turn_log'[Len(turn_log')].ev = "speak"
            /\ turn_log'[Len(turn_log')].text = Reprompt
        /\ (pc = "heard" /\ truthy(user_input)
            /\ lower(user_input.text) \notin ExitPhrases) =>
            /\ pc' = "listening"
            /\ calls' = calls + 1
            /\ last_call'.prompt = user_input.text
            /\ last_call'.pre_history = conversation_history
            /\ Len(turn_log') = Len(turn_log) + 2 + last_call'.requests
            /\ turn_log'[Len(turn_log')].ev = "speak"
            /\ turn_log'[Len(turn_log')].text = last_call'.reply
            /\ \A i \in 1..Len(turn_log') :
                  turn_log'[i].ev = "speak" => i = Len(turn_log')
      ]_vars

\* a turn that re-prompted, after a turn that replied
C9_Witness ==
    /\ pc = "listening"
    /\ user_input = None
    /\ turn_log[Len(turn_log)] \in {Event("speak", Reprompt, ok) : ok \in BOOLEAN}
    /\ calls >= 1

\* C10: no failure of a probe, of recognition, of the completion request or
\* of speech output takes the loop out of listening: nothing is raised out
\* of listen(), get_ai_response or speak(), listen() returns text or None,
\* get_ai_response returns a reply, every turn that is no exit turn goes
\* back to listening, and the loop ends only on an exit phrase.
C10_NoFailureLeavesLoop ==
    /\ pc \in {"start", "listening", "heard", "terminated"}
    /\ Events("raised") = {}
    /\ pc = "heard" => (user_input = None \/ truthy(user_input))
    /\ last_call.branch # "none" => last_call.reply # <<>>
    /\ pc = "terminated" =>
          /\ truthy(user_input)
          /\ lower(user_input.text) \in ExitPhrases
          /\ turn_log[Len(turn_log)].text = Farewell

\* the loop back at listening after a turn in which the probe, both
\* transcription paths and speech output failed, the completion request
\* of an earlier turn having failed too
C10_Witness ==
    /\ pc = "listening"
    /\ engine
    /\ last_call.branch = "failed"
    /\ \E i \in Events("advanced") : ~turn_log[i].ok
    /\ \E i \in Events("basic") : ~turn_log[i].ok
    /\ \E i \in Events("speak") : ~turn_log[i].ok

-----------------------------------------------------------------------------
(* More of the response selector's properties, under SpecResponse *)

\* C13: a get_ai_response call issues at most one completion request; a
\* request that fails is not sent again, and the call returns
\* generate_fallback_response(prompt).
C13_OneRequestNoRetry ==
    /\ last_call.requests <= 1
    /\ last_call.branch \in {"success", "failed"} => last_call.requests = 1
    /\ last_call.branch = "failed" =>
          /\ last_call.reply =
                 generate_fallback_response(last_call.prompt, ResponseClock)
          /\ last_call.reply # RemoteReply

\* a call whose one request failed
C13_Witness ==
    /\ last_call.branch = "failed"
    /\ last_call.requests = 1
    /\ last_call.sent # <<>>

\* C15: the user turn is appended before the trim and the request is sent
\* after it: the history a request carries is the history before the call
\* with the user turn appended and then, when that makes more than 11
\* entries, entry 1 removed; its entry 0 is the system turn and its last
\* entry is the user turn of the current prompt.
C15_AppendThenTrimThenRequest ==
    last_call.requests >= 1 =>
        LET before == last_call.pre_history
            turn == UserTurn(last_call.prompt)
            sent == last_call.sent
        IN  /\ sent[1] = SystemTurn
            /\ sent[Len(sent)] = turn
            /\ Len(before) + 1 <= 11 => sent = before \o <<turn>>
            /\ Len(before) + 1 > 11 =>
                  sent = <<before[1]>> \o SubSeq(before, 3, Len(before)) \o <<turn>>

\* a request sent after the trim has evicted entry 1
C15_Witness ==
    /\ last_call.requests = 1
    /\ Len(last_call.pre_history) = 11
    /\ Len(last_call.sent) = 11
    /\ last_call.sent[Len(last_call.sent)] = UserTurn(last_call.prompt)

\* C17: whenever get_ai_response has returned, the entries after entry 0
\* are user and assistant turns with no two adjacent entries of the same
\* role, and a history of more than one entry ends with an assistant turn;
\* entry 1 may be an assistant turn.
C17_RolesAlternate ==
    LET n == Len(conversation_history)
    IN  /\ \A i \in 2..n : conversation_history[i].role \in {"user", "assistant"}
        /\ \A i \in 2..(n - 1) :
              conversation_history[i].role # conversation_history[i + 1].role
        /\ n > 1 => conversation_history[n].role = "assistant"

\* a history whose entry 1 is an assistant turn
C17_Witness ==
    /\ Len(conversation_history) > 1
    /\ conversation_history[2].role = "assistant"

\* C18: the length of conversation_history never decreases from one return
\* of get_ai_response to the next; a call that takes a fallback branch
\* leaves it unchanged, and a call that reaches the request evicts at most
\* one entry, so that it adds one or two.
C18_LengthNeverDecreases ==
    [][ /\ Len(conversation_history') >= Len(conversation_history)
        /\ last_call'.branch \in {"offline", "unavailable"} =>
              Len(conversation_history') = Len(conversation_history)
        /\ last_call'.branch \in {"success", "failed"} =>
              Len(conversation_history') - Len(conversation_history) \in {1, 2}
      ]_vars

\* a call that reached the request and evicted one entry
C18_Witness ==
    /\ last_call.branch \in {"success", "failed"}
    /\ Len(conversation_history) = Len(last_call.pre_history) + 1

-----------------------------------------------------------------------------
(* Interrupts, under SpecInterrupt *)

\* the places of turn_log where an interrupt was delivered; from the first
\* listen() on, turn_log holds the calls of the current loop iteration
Interrupted == {i \in 1..Len(turn_log) : turn_log[i].text = <<Interrupt>>}

\* C11: an interrupt delivered while the loop runs, during a probe, a
\* listen, a completion request or speech output, leads to one spoken
\* farewell and the end of the process: nothing is listened to or answered
\* after it.
C11_InterruptEndsProcess ==
    (turns >= 1 /\ Interrupted # {}) =>
        /\ pc = "interrupted"
        /\ Interrupted = {Len(turn_log) - 1}
        /\ turn_log[Len(turn_log) - 1].ev = "raised"
        /\ turn_log[Len(turn_log)].ev = "speak"
        /\ turn_log[Len(turn_log)].text = Goodbye

-----------------------------------------------------------------------------
(* Scratch audio files, under Spec *)

\* C12 as stated: no scratch file created by an advanced-path listen exists
\* after the call has returned, whatever the exit path.
C12_NoScratchFileAfterCall == scratch_files = {}

\* C12, amended: a listen() call leaves the scratch files on disk as they
\* were, on every exit path of the advanced path, unless os.unlink itself
\* failed: then the call printed the warning, returned all the same, and
\* left its own file, and only that one, behind. Nothing else touches the
\* scratch files.
C12_ScratchFileStaysOnlyAfterWarning ==
    [][/\ turns' = turns + 1 =>
            scratch_files' = IF Events("warning")' # {}
                             THEN scratch_files \cup {turns'}
                             ELSE scratch_files
       /\ turns' = turns => scratch_files' = scratch_files]_vars

\* the first listen() failed to delete its file and warned; the second took
\* the advanced path, which raised or returned, and deleted its own
C12_Witness ==
    /\ turns = 2
    /\ scratch_files = {1}
    /\ Events("advanced") # {}
    /\ Events("warning") = {}
    /\ pc = "heard"

-----------------------------------------------------------------------------
(* Connectivity probes, under Spec *)

\* C14: every listen() call and every get_ai_response call starts with a
\* connectivity probe of its own, and the path each takes follows that
\* probe's result and no earlier one: listen() tries the advanced path
\* exactly when its own probe succeeded (and the three flags hold), and
\* get_ai_response takes the offline branch exactly when its own probe
\* failed, and sends a request only after its own probe succeeded.
C14_EachCallProbesAfresh ==
    /\ turns >= 1 =>
          /\ turn_log[1].ev = "probe"
          /\ Events("advanced") # {} <=>
                /\ turn_log[1].ok
                /\ WHISPER_AVAILABLE /\ SOUNDDEVICE_AVAILABLE
                /\ SOUNDFILE_AVAILABLE
          /\ pc = "heard" => Events("probe") = {1}
    /\ (pc = "listening" /\ turns >= 1 /\ truthy(user_input)) =>
          \E k \in 2..Len(turn_log) :
              /\ Events("probe") = {1, k}
              /\ Events("advanced") \cup Events("basic") \subseteq 2..(k - 1)
              /\ Events("request") \subseteq (k + 1)..Len(turn_log)
              /\ last_call.online = turn_log[k].ok
              /\ last_call.branch = "offline" <=> ~turn_log[k].ok
              /\ Events("request") # {} => turn_log[k].ok

\* both directions within one turn. The second turn has just ended: its
\* listen() probed offline and its get_ai_response probed online and reached
\* the request. The first turn's listen() probed online (it left its scratch
\* file behind) and its get_ai_response probed offline (with the service
\* available, it added nothing to the history)
C14_Witness ==
    /\ pc = "listening"
    /\ turns = 2
    /\ calls = 2
    /\ is_openai_available
    /\ ~turn_log[1].ok
    /\ last_call.online
    /\ Events("request") # {}
    /\ scratch_files = {1}
    /\ Len(conversation_history) = 3

-----------------------------------------------------------------------------
(* The exit turn, under Spec *)

\* C16: an utterance that matches an exit phrase is never passed to
\* get_ai_response. The step that follows hearing it makes no connectivity
\* probe and no completion request, leaves conversation_history as it was,
\* speaks the farewell and nothing else, and ends the loop.
C16_ExitTurnOnlySpeaksFarewell ==
    [][/\ (/\ pc = "heard"
            /\ truthy(user_input)
            /\ lower(user_input.text) \in ExitPhrases) =>
              /\ pc' = "terminated"
              /\ conversation_history' = conversation_history
              /\ last_call' = last_call
              /\ calls' = calls
              /\ \E voiced \in BOOLEAN :
                    turn_log' = Append(turn_log, Event("speak", Farewell, voiced))
              /\ Events("probe")' = {1}
              /\ Events("request")' = {}
              /\ Events("speak")' = {Len(turn_log')}
       /\ calls' # calls =>
              /\ lower(user_input.text) \notin ExitPhrases
              /\ last_call'.prompt = user_input.text]_vars

\* the loop has ended on an exit phrase in its second turn, after a first
\* turn that reached the completion request and added its two entries
C16_Witness ==
    /\ pc = "terminated"
    /\ turns = 2
    /\ lower(user_input.text) \in ExitPhrases
    /\ Len(conversation_history) = 3
    /\ turn_log[Len(turn_log)].text = Farewell

-----------------------------------------------------------------------------
(* Listening and speaking take turns, under Spec *)

\* C19: after the welcome, every listen() call is followed by exactly one
\* speak() call, the reply, the re-prompt or the farewell, before the next
\* listen() call or the end of the loop: nothing is spoken between listen()
\* and the branch taken on its result, and once that branch has run, the one
\* speak() call is the last call made since listen().
C19_OneSpeakPerListen ==
    /\ (pc = "listening" /\ turns = 0) =>
          /\ Events("speak") = {Len(turn_log)}
          /\ turn_log[Len(turn_log)].text = WelcomeMessage
    /\ pc = "heard" => Events("speak") = {}
    /\ (pc # "heard" /\ turns >= 1) =>
          /\ Events("speak") = {Len(turn_log)}
          /\ Events("probe") \cup Events("advanced") \cup Events("basic") # {}
          /\ turn_log[Len(turn_log)].text =
                IF pc = "terminated" THEN Farewell
                ELSE IF truthy(user_input) THEN last_call.reply
                ELSE Reprompt
    /\ pc \in {"start", "listening", "heard", "terminated"}

\* the loop is about to listen a third time: two listen() calls, the last
\* one answered by the re-prompt and nothing else
C19_Witness ==
    /\ pc = "listening"
    /\ turns = 2
    /\ ~truthy(user_input)
    /\ Events("speak") = {Len(turn_log)}
    /\ turn_log[Len(turn_log)].text = Reprompt

====
